---- MODULE Spec2Model ----
(***************************************************************************)
(* Model of the concurrency demonstrations of stefanini-technical-test:    *)
(*   examples/semaphore.py    threads guarded by a counting semaphore      *)
(*   examples/workerpool.py   multiprocessing.Pool(3).map                  *)
(*   examples/parallelism.py  one multiprocessing.Process per URL          *)
(*   examples/concurrency.py  asyncio.gather over ten coroutines           *)
(*   examples/asynchronism.py download_pdfs                                *)
(* Every demo has its own entry point (its __main__ block); `entry` is the *)
(* demo that is being run.                                                 *)
(***************************************************************************)
EXTENDS Integers, Sequences, FiniteSets, Bags, TLC

VARIABLES
    entry,      \* the demo that was invoked
    \* ---- semaphore.py
    sem_pc,     \* run_semaphore_example: "start" | "join" | "done"
    sem_i,      \* index of the next thread the runner starts / joins
    th_pc,      \* position of each thread in get_address_info
    whois,      \* outcome of each thread's lookup_whois
    permits,    \* value of Semaphore(4)
    valid_ips,  \* the shared list, as the bag of its entries; entry t
                \* stands for the tuple (ips[t], result of thread t)
    th_runs,    \* how many times each thread's target was run
    \* ---- workerpool.py
    wp_pc,      \* run_workerpool_tasks: "begin" | "map" | "exit" | "done"
    wp_K,       \* number of worker processes of the pool, 0 before Pool(K)
    taskq,      \* the pool's task queue: indices of the items not yet taken
    wk,         \* the item each worker is running, 0 when idle
    tm_calls,   \* how many times train_model was started for each item
    tm_rets,    \* how many times train_model returned for each item
    outq,       \* the pool's result queue: <<index, value>> in completion order
    results,    \* the map result's list of values, 0 where not yet set
    wp_values,  \* the list pool.map returned
    \* ---- parallelism.py
    pr_pc,      \* run_parallel_taks: "start" | "join" | "done"
    pr_i,       \* index of the next process the runner starts / joins
    p_pc,       \* position of each process in task
    p_ctype,    \* the Content-Type header each process received
    p_ret,      \* what task returned: "ok" is (True, size), "fail" is (False, 0)
    p_runs,     \* how many times each process's target was run
    \* ---- concurrency.py
    cc_pc,      \* run_concurrent_tasks: "init" | "running" | "returned" | "raised"
    co_pc,      \* position of each task(delay) coroutine
    co_result,  \* the value each coroutine returned, -1 when none
    cc_finished,\* the children of gather in the order in which they finished
    cc_values,  \* the list gather returned
    \* ---- asynchronism.py
    dl_pc,      \* download_pdfs: "read" | "loop" | "get" | "write" | "done"
    dl_i,       \* pdf_num of the loop
    pdf_st,     \* per PDF: "pending" | "downloading" | "saved" | "rejected" | "raised"
    dl_err,     \* the except branch of download_pdfs ran
    gq_pc,      \* get_quotes: "sleep" | "request" | "done" | "raised"
    gq_i,       \* iterations of get_quotes that are complete
    gq_clock,   \* virtual clock of get_quotes, in seconds
    gq_starts,  \* the times at which the latest requests started (at most
                \* ApiLimit + 1 of them are kept)
    \* ---- the ten d-second tasks on a virtual clock
    vc_pc,      \* "run" | "done"
    vc_clock,   \* the virtual clock
    vc_st,      \* per task: "pending" | "running" | "finished"
    vc_end,     \* per task: the clock value at which it finishes
    vc_wk,      \* per worker of the pool: the task it runs, -1 when idle
    vc_total,   \* the total time reported, -1 before the end
    \* ---- main.py and run_async_tasks_in_background
    script,     \* the runners the caller invokes, in order; empty when a
                \* demo is run alone
    main_i,     \* index in script of the runner that is invoked next
    main_st,    \* "idle" | "in_demo" | "finished" | "aborted"
    as_pc,      \* run_async_tasks_in_background: "start" | "s1" | "s2" | "s3" | "done"
    bg_pc,      \* its background thread: "new" | "started" | "running" |
                \* "ended" | "crashed"
    \* ---- the default event loop of asyncio
    loop_st,    \* "open" | "closed"
    loop_run,   \* run_until_complete is in progress
    loop_tasks, \* the coroutines of asynchronism.py that are pending on the loop
    loop_err    \* a call on the closed loop raised RuntimeError

semvars == <<sem_pc, sem_i, th_pc, whois, permits, valid_ips, th_runs>>
wpvars == <<wp_pc, wp_K, taskq, wk, tm_calls, tm_rets, outq, results, wp_values>>
prvars == <<pr_pc, pr_i, p_pc, p_ctype, p_ret, p_runs>>
ccvars == <<cc_pc, co_pc, co_result, cc_finished, cc_values>>
dlvars == <<dl_pc, dl_i, pdf_st, dl_err>>
gqvars == <<gq_pc, gq_i, gq_clock, gq_starts>>
vcvars == <<vc_pc, vc_clock, vc_st, vc_end, vc_wk, vc_total>>
mnvars == <<script, main_i, main_st, as_pc, bg_pc>>
lpvars == <<loop_st, loop_run, loop_tasks, loop_err>>

vars == <<entry, semvars, wpvars, prvars, ccvars, dlvars, gqvars, vcvars, mnvars, lpvars>>

\* ---------------------------------------------------------------- bounds
\* The demos run 20 threads, 10 trainings, 10 coroutines and one process or
\* download per line of a file; the model runs fewer of each.
NThreads == 5
NItems == 4
NProcs == 3
NDelays == 3
NPdfs == 3
\* the longest time, in seconds, a request of get_quote takes in the model
MaxRequestTime == 1

\* ------------------------------------------------------ program constants
SemaphoreValue == 4
PoolSize == 3
QuoteCount == 20
QuoteDelay == 6
ApiLimit == 5
ApiWindow == 30
ClockTasks == 10

Threads == 0 .. NThreads - 1

Entries == {"semaphore", "workerpool", "parallelism", "concurrency", "download_pdfs"}

\* ====================================================== examples/semaphore.py

ThreadTerminal(t) == th_pc[t] = "done"

\* Threads inside the `with semaphore:` block.
InGuard == {t \in Threads : th_pc[t] \in {"guarded", "sleep"}}

\* list.append
ListAppend(l, x) == l (+) SetToBag({x})

InitSemaphore ==
    /\ sem_pc = "start"
    /\ sem_i = 0
    /\ th_pc = [t \in Threads |-> "new"]
    /\ whois = [t \in Threads |-> "pending"]
    /\ permits = SemaphoreValue
    /\ valid_ips = EmptyBag
    /\ th_runs = [t \in Threads |-> 0]

\* SemStart with the threads started from the last to the first
SemStartReversed ==
    /\ entry = "semaphore"
    /\ sem_pc = "start"
    /\ IF sem_i < NThreads
       THEN /\ th_pc' = [th_pc EXCEPT ![NThreads - 1 - sem_i] = "lookup"]
            /\ th_runs' = [th_runs EXCEPT ![NThreads - 1 - sem_i] = @ + 1]
            /\ sem_i' = sem_i + 1
            /\ UNCHANGED sem_pc
       ELSE /\ sem_pc' = "join"
            /\ sem_i' = 0
            /\ UNCHANGED <<th_pc, th_runs>>
    /\ UNCHANGED <<entry, gqvars, vcvars, mnvars, lpvars, wpvars, prvars, ccvars, dlvars, whois, permits, valid_ips>>

\* for t in threads: t.start()
SemStart ==
    /\ entry = "semaphore"
    /\ sem_pc = "start"
    /\ IF sem_i < NThreads
       THEN /\ th_pc' = [th_pc EXCEPT ![sem_i] = "lookup"]
            /\ th_runs' = [th_runs EXCEPT ![sem_i] = @ + 1]
            /\ sem_i' = sem_i + 1
            /\ UNCHANGED sem_pc
       ELSE /\ sem_pc' = "join"
            /\ sem_i' = 0
            /\ UNCHANGED <<th_pc, th_runs>>
    /\ UNCHANGED <<entry, gqvars, vcvars, mnvars, lpvars, wpvars, prvars, ccvars, dlvars, whois, permits, valid_ips>>

\* Lookup without the `if result is None: return`
LookupNoNoneCheck(t) ==
    /\ entry = "semaphore"
    /\ th_pc[t] = "lookup"
    /\ \E r \in {"ok", "none", "raise"} :
         /\ whois' = [whois EXCEPT ![t] = r]
         /\ th_pc' = [th_pc EXCEPT ![t] = IF r = "raise" THEN "except" ELSE "acquire"]
    /\ UNCHANGED <<entry, gqvars, vcvars, mnvars, lpvars, wpvars, prvars, ccvars, dlvars, sem_pc, sem_i, permits, valid_ips, th_runs>>

\* obj = IPWhois(address); result = obj.lookup_whois(); if result is None: return
Lookup(t) ==
    /\ entry = "semaphore"
    /\ th_pc[t] = "lookup"
    /\ \E r \in {"ok", "none", "raise"} :
         /\ whois' = [whois EXCEPT ![t] = r]
         /\ th_pc' = [th_pc EXCEPT ![t] =
                        CASE r = "ok" -> "acquire"
                          [] r = "none" -> "done"
                          [] r = "raise" -> "except"]
    /\ UNCHANGED <<entry, gqvars, vcvars, mnvars, lpvars, wpvars, prvars, ccvars, dlvars, sem_pc, sem_i, permits, valid_ips, th_runs>>

\* Acquire that does not block when no permit is left
AcquireNoBlock(t) ==
    /\ entry = "semaphore"
    /\ th_pc[t] = "acquire"
    /\ permits' = permits - 1
    /\ th_pc' = [th_pc EXCEPT ![t] = "guarded"]
    /\ UNCHANGED <<entry, gqvars, vcvars, mnvars, lpvars, wpvars, prvars, ccvars, dlvars, sem_pc, sem_i, whois, valid_ips, th_runs>>

\* with semaphore:  (Semaphore.acquire blocks while the value is 0)
\*     print("Acquiring access to shared resource")
Acquire(t) ==
    /\ entry = "semaphore"
    /\ th_pc[t] = "acquire"
    /\ permits > 0
    /\ permits' = permits - 1
    /\ th_pc' = [th_pc EXCEPT ![t] = "guarded"]
    /\ UNCHANGED <<entry, gqvars, vcvars, mnvars, lpvars, wpvars, prvars, ccvars, dlvars, sem_pc, sem_i, whois, valid_ips, th_runs>>

\* valid_ips.append((address, result))
AppendIp(t) ==
    /\ entry = "semaphore"
    /\ th_pc[t] = "guarded"
    /\ valid_ips' = ListAppend(valid_ips, t)
    /\ th_pc' = [th_pc EXCEPT ![t] = "sleep"]
    /\ UNCHANGED <<entry, gqvars, vcvars, mnvars, lpvars, wpvars, prvars, ccvars, dlvars, sem_pc, sem_i, whois, permits, th_runs>>

\* Release that leaves the block without giving the permit back
ReleaseKeepsPermit(t) ==
    /\ entry = "semaphore"
    /\ th_pc[t] = "sleep"
    /\ th_pc' = [th_pc EXCEPT ![t] = "released"]
    /\ UNCHANGED <<entry, gqvars, vcvars, mnvars, lpvars, wpvars, prvars, ccvars, dlvars, sem_pc, sem_i, whois, permits, valid_ips, th_runs>>

\* Release with the "Releasing" message printed inside the with block
ReleaseMsgInside(t) ==
    /\ entry = "semaphore"
    /\ th_pc[t] = "sleep"
    /\ permits' = permits + 1
    /\ th_pc' = [th_pc EXCEPT ![t] = "done"]
    /\ UNCHANGED <<entry, gqvars, vcvars, mnvars, lpvars, wpvars, prvars, ccvars, dlvars, sem_pc, sem_i, whois, valid_ips, th_runs>>

\* sleep(3), then the with block exits: Semaphore.release
Release(t) ==
    /\ entry = "semaphore"
    /\ th_pc[t] = "sleep"
    /\ permits' = permits + 1
    /\ th_pc' = [th_pc EXCEPT ![t] = "released"]
    /\ UNCHANGED <<entry, gqvars, vcvars, mnvars, lpvars, wpvars, prvars, ccvars, dlvars, sem_pc, sem_i, whois, valid_ips, th_runs>>

\* print("Releasing access to shared resource"), the function returns
ReleaseMsg(t) ==
    /\ entry = "semaphore"
    /\ th_pc[t] = "released"
    /\ th_pc' = [th_pc EXCEPT ![t] = "done"]
    /\ UNCHANGED <<entry, gqvars, vcvars, mnvars, lpvars, wpvars, prvars, ccvars, dlvars, sem_pc, sem_i, whois, permits, valid_ips, th_runs>>

\* except Exception as e: print(...)
ThreadExcept(t) ==
    /\ entry = "semaphore"
    /\ th_pc[t] = "except"
    /\ th_pc' = [th_pc EXCEPT ![t] = "done"]
    /\ UNCHANGED <<entry, gqvars, vcvars, mnvars, lpvars, wpvars, prvars, ccvars, dlvars, sem_pc, sem_i, whois, permits, valid_ips, th_runs>>

\* for t in threads: t.join()   and then print(valid_ips)
SemJoin ==
    /\ entry = "semaphore"
    /\ sem_pc = "join"
    /\ IF sem_i < NThreads
       THEN /\ ThreadTerminal(sem_i)
            /\ sem_i' = sem_i + 1
            /\ UNCHANGED sem_pc
       ELSE /\ sem_pc' = "done"
            /\ UNCHANGED sem_i
    /\ UNCHANGED <<entry, gqvars, vcvars, mnvars, lpvars, wpvars, prvars, ccvars, dlvars, th_pc, whois, permits, valid_ips, th_runs>>

NextSemaphore ==
    \/ SemStart
    \/ SemJoin
    \/ \E t \in Threads : Lookup(t)
    \/ \E t \in Threads : Acquire(t)
    \/ \E t \in Threads : AppendIp(t)
    \/ \E t \in Threads : Release(t)
    \/ \E t \in Threads : ReleaseMsg(t)
    \/ \E t \in Threads : ThreadExcept(t)


\* ===================================================== examples/workerpool.py

Items == 1 .. NItems
Workers == 1 .. PoolSize

\* list(range(100, 200, 10)) is ten items in the demo; item i is the i-th of
\* range(100, 100 + 10 * NItems, 10)
MaxIter(i) == 100 + 10 * (i - 1)

\* train_model invocations that have started and not yet returned
InFlight == {i \in Items : tm_calls[i] > tm_rets[i]}

\* MapResult._set: the value of the i-th task goes to slot i of the list
StoreResult(res, i, v) == [res EXCEPT ![i] = v]

InitWorkerpool ==
    /\ wp_pc = "begin"
    /\ wp_K = 0
    /\ taskq = <<>>
    /\ wk = [w \in Workers |-> 0]
    /\ tm_calls = [i \in Items |-> 0]
    /\ tm_rets = [i \in Items |-> 0]
    /\ outq = <<>>
    /\ results = [i \in Items |-> 0]
    /\ wp_values = <<>>

\* with Pool(K) as pool: pool.map(train_model, items) -- K worker processes
\* are created (the demo's K is PoolSize; smaller pools are modelled too), the
\* items are put on the task queue in order and the caller waits
PoolMap ==
    /\ entry = "workerpool"
    /\ wp_pc = "begin"
    /\ wp_pc' = "map"
    /\ wp_K' \in 1 .. PoolSize
    /\ taskq' = [i \in Items |-> i]
    /\ UNCHANGED <<entry, gqvars, vcvars, mnvars, lpvars, semvars, prvars, ccvars, dlvars,
                   wk, tm_calls, tm_rets, outq, results, wp_values>>

\* WorkerGet that hands a task to a worker whether or not it is idle
WorkerGetBusy(w) ==
    /\ entry = "workerpool"
    /\ wp_pc = "map"
    /\ w <= wp_K
    /\ taskq # <<>>
    /\ wk' = [wk EXCEPT ![w] = Head(taskq)]
    /\ tm_calls' = [tm_calls EXCEPT ![Head(taskq)] = @ + 1]
    /\ taskq' = Tail(taskq)
    /\ UNCHANGED <<entry, gqvars, vcvars, mnvars, lpvars, semvars, prvars, ccvars, dlvars,
                   wp_pc, wp_K, tm_rets, outq, results, wp_values>>

\* WorkerGet with PoolSize workers whatever the size the pool was built with
WorkerGetAnyWorker(w) ==
    /\ entry = "workerpool"
    /\ wp_pc = "map"
    /\ wk[w] = 0
    /\ taskq # <<>>
    /\ wk' = [wk EXCEPT ![w] = Head(taskq)]
    /\ tm_calls' = [tm_calls EXCEPT ![Head(taskq)] = @ + 1]
    /\ taskq' = Tail(taskq)
    /\ UNCHANGED <<entry, gqvars, vcvars, mnvars, lpvars, semvars, prvars, ccvars, dlvars,
                   wp_pc, wp_K, tm_rets, outq, results, wp_values>>

\* a worker process that is idle takes the next task and calls train_model
WorkerGet(w) ==
    /\ entry = "workerpool"
    /\ wp_pc = "map"
    /\ w <= wp_K
    /\ wk[w] = 0
    /\ taskq # <<>>
    /\ wk' = [wk EXCEPT ![w] = Head(taskq)]
    /\ tm_calls' = [tm_calls EXCEPT ![Head(taskq)] = @ + 1]
    /\ taskq' = Tail(taskq)
    /\ UNCHANGED <<entry, gqvars, vcvars, mnvars, lpvars, semvars, prvars, ccvars, dlvars,
                   wp_pc, wp_K, tm_rets, outq, results, wp_values>>

\* train_model: fit, predict, print, sleep(5), return clf; the worker puts
\* the result on the result queue and is idle again
TrainReturn(w) ==
    /\ entry = "workerpool"
    /\ wp_pc = "map"
    /\ wk[w] # 0
    /\ outq' = Append(outq, <<wk[w], MaxIter(wk[w])>>)
    /\ tm_rets' = [tm_rets EXCEPT ![wk[w]] = @ + 1]
    /\ wk' = [wk EXCEPT ![w] = 0]
    /\ UNCHANGED <<entry, gqvars, vcvars, mnvars, lpvars, semvars, prvars, ccvars, dlvars,
                   wp_pc, wp_K, taskq, tm_calls, results, wp_values>>

\* the pool's result handler takes a result off the queue and stores it
HandleResult ==
    /\ entry = "workerpool"
    /\ wp_pc = "map"
    /\ outq # <<>>
    /\ results' = StoreResult(results, Head(outq)[1], Head(outq)[2])
    /\ outq' = Tail(outq)
    /\ UNCHANGED <<entry, gqvars, vcvars, mnvars, lpvars, semvars, prvars, ccvars, dlvars,
                   wp_pc, wp_K, taskq, wk, tm_calls, tm_rets, wp_values>>

\* pool.map returns once every slot of the result list is set
MapReturn ==
    /\ entry = "workerpool"
    /\ wp_pc = "map"
    /\ \A i \in Items : results[i] # 0
    /\ wp_values' = results
    /\ wp_pc' = "exit"
    /\ UNCHANGED <<entry, gqvars, vcvars, mnvars, lpvars, semvars, prvars, ccvars, dlvars,
                   wp_K, taskq, wk, tm_calls, tm_rets, outq, results>>

\* the with block is left (Pool.__exit__), end = time(), print, return total
PoolExit ==
    /\ entry = "workerpool"
    /\ wp_pc = "exit"
    /\ wp_pc' = "done"
    /\ UNCHANGED <<entry, gqvars, vcvars, mnvars, lpvars, semvars, prvars, ccvars, dlvars,
                   wp_K, taskq, wk, tm_calls, tm_rets, outq, results, wp_values>>

NextWorkerpool ==
    \/ PoolMap
    \/ MapReturn
    \/ PoolExit
    \/ HandleResult
    \/ \E w \in Workers : WorkerGet(w)
    \/ \E w \in Workers : TrainReturn(w)

\* ==================================================== examples/parallelism.py

Procs == 0 .. NProcs - 1

allowed_types == {"image/jpeg", "image/png", "image/jpg"}

\* the Content-Type values a server answers with in the model
ContentTypes == allowed_types \cup {"text/html"}

ProcTerminal(p) == p_pc[p] = "done"

InitParallel ==
    /\ pr_pc = "start"
    /\ pr_i = 0
    /\ p_pc = [p \in Procs |-> "new"]
    /\ p_ctype = [p \in Procs |-> "unset"]
    /\ p_ret = [p \in Procs |-> "none"]
    /\ p_runs = [p \in Procs |-> 0]

\* PrStart that waits for the process started before (start and join in one loop)
PrStartSerial ==
    /\ entry = "parallelism"
    /\ pr_pc = "start"
    /\ IF pr_i < NProcs
       THEN /\ pr_i > 0 => p_pc[pr_i - 1] = "done"
            /\ p_pc' = [p_pc EXCEPT ![pr_i] = "get"]
            /\ p_runs' = [p_runs EXCEPT ![pr_i] = @ + 1]
            /\ pr_i' = pr_i + 1
            /\ UNCHANGED pr_pc
       ELSE /\ pr_pc' = "join"
            /\ pr_i' = 0
            /\ UNCHANGED <<p_pc, p_runs>>
    /\ UNCHANGED <<entry, gqvars, vcvars, mnvars, lpvars, semvars, wpvars, ccvars, dlvars, p_ctype, p_ret>>

\* for process in processes: process.start()
PrStart ==
    /\ entry = "parallelism"
    /\ pr_pc = "start"
    /\ IF pr_i < NProcs
       THEN /\ p_pc' = [p_pc EXCEPT ![pr_i] = "get"]
            /\ p_runs' = [p_runs EXCEPT ![pr_i] = @ + 1]
            /\ pr_i' = pr_i + 1
            /\ UNCHANGED pr_pc
       ELSE /\ pr_pc' = "join"
            /\ pr_i' = 0
            /\ UNCHANGED <<p_pc, p_runs>>
    /\ UNCHANGED <<entry, gqvars, vcvars, mnvars, lpvars, semvars, wpvars, ccvars, dlvars, p_ctype, p_ret>>

\* response = get(url, allow_redirects=True); content_type = headers.get(...)
ProcGet(p) ==
    /\ entry = "parallelism"
    /\ p_pc[p] = "get"
    /\ \/ \E c \in ContentTypes :
            /\ p_ctype' = [p_ctype EXCEPT ![p] = c]
            /\ p_pc' = [p_pc EXCEPT ![p] = "check"]
       \/ /\ p_pc' = [p_pc EXCEPT ![p] = "except"]
          /\ UNCHANGED p_ctype
    /\ UNCHANGED <<entry, gqvars, vcvars, mnvars, lpvars, semvars, wpvars, ccvars, dlvars, pr_pc, pr_i, p_ret, p_runs>>

\* if content_type not in allowed_types: raise Exception(...)
ProcCheck(p) ==
    /\ entry = "parallelism"
    /\ p_pc[p] = "check"
    /\ p_pc' = [p_pc EXCEPT ![p] =
                  IF p_ctype[p] \in allowed_types THEN "image" ELSE "except"]
    /\ UNCHANGED <<entry, gqvars, vcvars, mnvars, lpvars, semvars, wpvars, ccvars, dlvars, pr_pc, pr_i, p_ctype, p_ret, p_runs>>

\* Image.open, resize, save, print, return True, size -- or one of them raises
ProcImage(p) ==
    /\ entry = "parallelism"
    /\ p_pc[p] = "image"
    /\ \/ /\ p_pc' = [p_pc EXCEPT ![p] = "done"]
          /\ p_ret' = [p_ret EXCEPT ![p] = "ok"]
       \/ /\ p_pc' = [p_pc EXCEPT ![p] = "except"]
          /\ UNCHANGED p_ret
    /\ p_ctype' = [p_ctype EXCEPT ![p] = "unset"]
    /\ UNCHANGED <<entry, gqvars, vcvars, mnvars, lpvars, semvars, wpvars, ccvars, dlvars, pr_pc, pr_i, p_runs>>

\* ProcExcept that lets the exception end the process: nothing is returned
ProcExceptUncaught(p) ==
    /\ entry = "parallelism"
    /\ p_pc[p] = "except"
    /\ p_pc' = [p_pc EXCEPT ![p] = "done"]
    /\ p_ctype' = [p_ctype EXCEPT ![p] = "unset"]
    /\ UNCHANGED <<entry, gqvars, vcvars, mnvars, lpvars, semvars, wpvars, ccvars, dlvars, pr_pc, pr_i, p_ret, p_runs>>

\* except Exception as e: print(...); return False, 0
ProcExcept(p) ==
    /\ entry = "parallelism"
    /\ p_pc[p] = "except"
    /\ p_pc' = [p_pc EXCEPT ![p] = "done"]
    /\ p_ret' = [p_ret EXCEPT ![p] = "fail"]
    /\ p_ctype' = [p_ctype EXCEPT ![p] = "unset"]
    /\ UNCHANGED <<entry, gqvars, vcvars, mnvars, lpvars, semvars, wpvars, ccvars, dlvars, pr_pc, pr_i, p_runs>>

\* PrJoin that does not wait for the process it joins
PrJoinNoWait ==
    /\ entry = "parallelism"
    /\ pr_pc = "join"
    /\ IF pr_i < NProcs
       THEN /\ pr_i' = pr_i + 1
            /\ UNCHANGED pr_pc
       ELSE /\ pr_pc' = "done"
            /\ UNCHANGED pr_i
    /\ UNCHANGED <<entry, gqvars, vcvars, mnvars, lpvars, semvars, wpvars, ccvars, dlvars, p_pc, p_ctype, p_ret, p_runs>>

\* for process in processes: process.join()   and then total = end - begin
PrJoin ==
    /\ entry = "parallelism"
    /\ pr_pc = "join"
    /\ IF pr_i < NProcs
       THEN /\ ProcTerminal(pr_i)
            /\ pr_i' = pr_i + 1
            /\ UNCHANGED pr_pc
       ELSE /\ pr_pc' = "done"
            /\ UNCHANGED pr_i
    /\ UNCHANGED <<entry, gqvars, vcvars, mnvars, lpvars, semvars, wpvars, ccvars, dlvars, p_pc, p_ctype, p_ret, p_runs>>

NextParallel ==
    \/ PrStart
    \/ PrJoin
    \/ \E p \in Procs : ProcGet(p)
    \/ \E p \in Procs : ProcCheck(p)
    \/ \E p \in Procs : ProcImage(p)
    \/ \E p \in Procs : ProcExcept(p)

\* ==================================================== examples/concurrency.py

Delays == 0 .. NDelays - 1

\* tasks = [task(delay) for delay in range(10)]
Children == [i \in 1 .. NDelays |-> i - 1]

\* GatherValues in the order in which the children finished
GatherValuesAsCompleted == [i \in 1 .. NDelays |-> co_result[cc_finished[i]]]

\* asyncio.gather: the results of the children, in the order of the arguments
GatherValues == [i \in 1 .. NDelays |-> co_result[Children[i]]]

InitConcurrent ==
    /\ cc_pc = "init"
    /\ co_pc = [d \in Delays |-> "created"]
    /\ co_result = [d \in Delays |-> -1]
    /\ cc_finished = <<>>
    /\ cc_values = <<>>

\* begin = time(); loop.run_until_complete(asyncio.gather(*tasks))
\* on a closed loop gather cannot create its tasks: RuntimeError
RunGather ==
    /\ entry = "concurrency"
    /\ cc_pc = "init"
    /\ ~loop_run
    /\ IF loop_st = "closed"
       THEN /\ cc_pc' = "raised"
            /\ loop_err' = TRUE
            /\ UNCHANGED loop_run
       ELSE /\ cc_pc' = "running"
            /\ loop_run' = TRUE
            /\ UNCHANGED loop_err
    /\ UNCHANGED <<entry, gqvars, vcvars, mnvars, semvars, wpvars, prvars, dlvars,
                   loop_st, loop_tasks,
                   co_pc, co_result, cc_finished, cc_values>>

\* print("Sending request to ..."); the coroutine awaits session.get(url)
CoSend(d) ==
    /\ entry = "concurrency"
    /\ cc_pc = "running"
    /\ co_pc[d] = "created"
    /\ co_pc' = [co_pc EXCEPT ![d] = "awaiting"]
    /\ UNCHANGED <<entry, gqvars, vcvars, mnvars, lpvars, semvars, wpvars, prvars, dlvars,
                   cc_pc, co_result, cc_finished, cc_values>>

\* the response arrives and the coroutine returns await response.json(), or
\* the request or the decoding raises: task has no try block
CoRespond(d) ==
    /\ entry = "concurrency"
    /\ cc_pc = "running"
    /\ co_pc[d] = "awaiting"
    /\ \/ /\ co_pc' = [co_pc EXCEPT ![d] = "done"]
          /\ co_result' = [co_result EXCEPT ![d] = d]
       \/ /\ co_pc' = [co_pc EXCEPT ![d] = "raised"]
          /\ UNCHANGED co_result
    /\ cc_finished' = Append(cc_finished, d)
    /\ UNCHANGED <<entry, gqvars, vcvars, mnvars, lpvars, semvars, wpvars, prvars, dlvars, cc_pc, cc_values>>

\* GatherReturn without loop.close()
GatherReturnNoClose ==
    /\ entry = "concurrency"
    /\ cc_pc = "running"
    /\ \A d \in Delays : co_pc[d] = "done"
    /\ cc_values' = GatherValues
    /\ cc_pc' = "returned"
    /\ loop_run' = FALSE
    /\ UNCHANGED <<entry, gqvars, vcvars, mnvars, semvars, wpvars, prvars, dlvars,
                   loop_st, loop_tasks, loop_err, co_pc, co_result, cc_finished>>

\* every child finished without raising: gather's future gets the results,
\* run_until_complete returns them; print total, loop.close(), return total.
\* close() empties the queues of the loop: what was pending on it is dropped
GatherReturn ==
    /\ entry = "concurrency"
    /\ cc_pc = "running"
    /\ \A d \in Delays : co_pc[d] = "done"
    /\ cc_values' = GatherValues
    /\ cc_pc' = "returned"
    /\ loop_run' = FALSE
    /\ loop_st' = "closed"
    /\ loop_tasks' = {}
    /\ UNCHANGED <<entry, gqvars, vcvars, mnvars, semvars, wpvars, prvars, dlvars,
                   loop_err, co_pc, co_result, cc_finished>>

\* a child raised: gather (return_exceptions is False) sets that exception on
\* its future, run_until_complete raises it and run_concurrent_tasks is left
\* by the exception; the loop no longer runs the other children
GatherRaise ==
    /\ entry = "concurrency"
    /\ cc_pc = "running"
    /\ \E d \in Delays : co_pc[d] = "raised"
    /\ cc_pc' = "raised"
    /\ loop_run' = FALSE
    /\ UNCHANGED <<entry, gqvars, vcvars, mnvars, semvars, wpvars, prvars, dlvars,
                   loop_st, loop_tasks, loop_err,
                   co_pc, co_result, cc_finished, cc_values>>

NextConcurrent ==
    \/ RunGather
    \/ GatherReturn
    \/ GatherRaise
    \/ \E d \in Delays : CoSend(d)
    \/ \E d \in Delays : CoRespond(d)

\* =================================================== examples/asynchronism.py

Pdfs == 0 .. NPdfs - 1

\* download_pdfs takes steps when it is run alone, or when it is pending on
\* the loop and the loop is running
DlRuns ==
    \/ entry = "download_pdfs"
    \/ loop_run /\ "download_pdfs" \in loop_tasks

InitDownload ==
    /\ dl_pc = "read"
    /\ dl_i = 0
    /\ pdf_st = [i \in Pdfs |-> "pending"]
    /\ dl_err = FALSE

\* pdf_urls = await read_pdf_urls_list()
DlRead ==
    /\ DlRuns
    /\ dl_pc = "read"
    /\ dl_pc' \in {"loop", "except"}
    /\ UNCHANGED <<entry, gqvars, vcvars, mnvars, lpvars, semvars, wpvars, prvars, ccvars, dl_i, pdf_st, dl_err>>

\* for pdf_num, pdf_url in enumerate(pdf_urls): print("Downloading PDF ...")
DlNext ==
    /\ DlRuns
    /\ dl_pc = "loop"
    /\ IF dl_i < NPdfs
       THEN /\ pdf_st' = [pdf_st EXCEPT ![dl_i] = "downloading"]
            /\ dl_pc' = "get"
       ELSE /\ dl_pc' = "done"
            /\ UNCHANGED pdf_st
    /\ loop_tasks' = IF dl_pc' = "done" THEN loop_tasks \ {"download_pdfs"}
                                        ELSE loop_tasks
    /\ UNCHANGED <<entry, gqvars, vcvars, mnvars, semvars, wpvars, prvars, ccvars,
                   loop_st, loop_run, loop_err, dl_i, dl_err>>

\* download_file: session.get; a Content-Type other than application/pdf
\* prints and returns; the request may raise
DlGet ==
    /\ DlRuns
    /\ dl_pc = "get"
    /\ \/ /\ dl_pc' = "write"
          /\ UNCHANGED <<pdf_st, dl_i>>
       \/ /\ pdf_st' = [pdf_st EXCEPT ![dl_i] = "rejected"]
          /\ dl_i' = dl_i + 1
          /\ dl_pc' = "loop"
       \/ /\ pdf_st' = [pdf_st EXCEPT ![dl_i] = "raised"]
          /\ dl_pc' = "except"
          /\ UNCHANGED dl_i
    /\ UNCHANGED <<entry, gqvars, vcvars, mnvars, lpvars, semvars, wpvars, prvars, ccvars, dl_err>>

\* download_file: await write_file(filepath, response.content); print
DlWrite ==
    /\ DlRuns
    /\ dl_pc = "write"
    /\ \/ /\ pdf_st' = [pdf_st EXCEPT ![dl_i] = "saved"]
          /\ dl_i' = dl_i + 1
          /\ dl_pc' = "loop"
       \/ /\ pdf_st' = [pdf_st EXCEPT ![dl_i] = "raised"]
          /\ dl_pc' = "except"
          /\ UNCHANGED dl_i
    /\ UNCHANGED <<entry, gqvars, vcvars, mnvars, lpvars, semvars, wpvars, prvars, ccvars, dl_err>>

\* except Exception as e: print(...) -- the handler encloses the whole loop
DlExcept ==
    /\ DlRuns
    /\ dl_pc = "except"
    /\ dl_err' = TRUE
    /\ dl_pc' = "done"
    /\ loop_tasks' = loop_tasks \ {"download_pdfs"}
    /\ UNCHANGED <<entry, gqvars, vcvars, mnvars, semvars, wpvars, prvars, ccvars,
                   loop_st, loop_run, loop_err, dl_i, pdf_st>>

NextDownload ==
    \/ DlRead
    \/ DlNext
    \/ DlGet
    \/ DlWrite
    \/ DlExcept


\* ------------------------------------------------- get_quotes on a virtual clock

\* the last n elements of a sequence
LastN(q, n) == IF Len(q) <= n THEN q ELSE SubSeq(q, Len(q) - n + 1, Len(q))

\* requests of get_quote that have been started
QuoteRequests == gq_i + (IF gq_pc \in {"request", "raised"} THEN 1 ELSE 0)

\* get_quotes takes steps when it is run alone, or when it is pending on the
\* loop and the loop is running
GqRuns ==
    \/ entry = "get_quotes"
    \/ loop_run /\ "get_quotes" \in loop_tasks

\* the durations of a request of get_quote: time is observed only when
\* get_quotes is run alone
RequestTimes == IF entry = "get_quotes" THEN 0 .. MaxRequestTime ELSE {0}

InitQuotes ==
    /\ gq_pc = "sleep"
    /\ gq_i = 0
    /\ gq_clock = 0
    /\ gq_starts = <<>>

\* GqSleep with a delay one second too short
GqSleepShort ==
    /\ GqRuns
    /\ gq_pc = "sleep"
    /\ IF gq_i < QuoteCount
       THEN /\ gq_clock' = gq_clock + QuoteDelay - 1
            /\ gq_starts' = LastN(Append(gq_starts, gq_clock'), ApiLimit + 1)
            /\ gq_pc' = "request"
       ELSE /\ gq_pc' = "done"
            /\ UNCHANGED <<gq_clock, gq_starts>>
    /\ loop_tasks' = IF gq_pc' = "done" THEN loop_tasks \ {"get_quotes"}
                                        ELSE loop_tasks
    /\ UNCHANGED <<entry, mnvars, semvars, wpvars, prvars, ccvars, dlvars, vcvars,
                   loop_st, loop_run, loop_err, gq_i>>

\* for _ in range(20): await asyncio.sleep(6); then get_quote is called
GqSleep ==
    /\ GqRuns
    /\ gq_pc = "sleep"
    /\ IF gq_i < QuoteCount
       THEN /\ gq_clock' = gq_clock + QuoteDelay
            /\ gq_starts' = LastN(Append(gq_starts, gq_clock'), ApiLimit + 1)
            /\ gq_pc' = "request"
       ELSE /\ gq_pc' = "done"
            /\ UNCHANGED <<gq_clock, gq_starts>>
    /\ loop_tasks' = IF gq_pc' = "done" THEN loop_tasks \ {"get_quotes"}
                                        ELSE loop_tasks
    /\ UNCHANGED <<entry, mnvars, semvars, wpvars, prvars, ccvars, dlvars, vcvars,
                   loop_st, loop_run, loop_err, gq_i>>

\* quote = await get_quote(); print(...) -- the request takes some time and
\* returns, or it raises (get_quotes has no try block)
GqQuote ==
    /\ GqRuns
    /\ gq_pc = "request"
    /\ \E dur \in RequestTimes : gq_clock' = gq_clock + dur
    /\ \/ /\ gq_i' = gq_i + 1
          /\ gq_pc' = "sleep"
          /\ UNCHANGED loop_tasks
       \/ /\ gq_pc' = "raised"
          /\ loop_tasks' = loop_tasks \ {"get_quotes"}
          /\ UNCHANGED gq_i
    /\ UNCHANGED <<entry, mnvars, semvars, wpvars, prvars, ccvars, dlvars, vcvars,
                   loop_st, loop_run, loop_err, gq_starts>>

NextQuotes ==
    \/ GqSleep
    \/ GqQuote

\* ------------------------------------------ ten d-second tasks on a virtual clock
\* Task d (d = 0..9) costs d seconds, as task(delay) of concurrency.py does.
\* entry "virtual_gather" runs them as run_concurrent_tasks does, all at once;
\* entry "virtual_pool" runs them through Pool(3) as run_workerpool_tasks does.

VTasks == 0 .. ClockTasks - 1

VRunning == {d \in VTasks : vc_st[d] = "running"}

InitClock ==
    /\ vc_pc = "run"
    /\ vc_clock = 0
    /\ vc_st = [d \in VTasks |-> "pending"]
    /\ vc_end = [d \in VTasks |-> -1]
    /\ vc_wk = [w \in Workers |-> -1]
    /\ vc_total = -1

\* VcStart without the limit of the pool
VcStartNoLimit(d) ==
    /\ entry \in {"virtual_gather", "virtual_pool"}
    /\ vc_pc = "run"
    /\ vc_st[d] = "pending"
    /\ \A e \in VTasks : e < d => vc_st[e] # "pending"
    /\ vc_st' = [vc_st EXCEPT ![d] = "running"]
    /\ vc_end' = [vc_end EXCEPT ![d] = vc_clock + d]
    /\ UNCHANGED <<entry, mnvars, lpvars, semvars, wpvars, prvars, ccvars, dlvars, gqvars,
                   vc_pc, vc_clock, vc_wk, vc_total>>

\* the next task in submission order starts: gather starts every child at
\* once, in the pool a worker that is idle takes it
VcStart(d) ==
    /\ entry \in {"virtual_gather", "virtual_pool"}
    /\ vc_pc = "run"
    /\ vc_st[d] = "pending"
    /\ \A e \in VTasks : e < d => vc_st[e] # "pending"
    /\ IF entry = "virtual_pool"
       THEN \E w \in Workers :
               /\ vc_wk[w] = -1
               /\ vc_wk' = [vc_wk EXCEPT ![w] = d]
       ELSE UNCHANGED vc_wk
    /\ vc_st' = [vc_st EXCEPT ![d] = "running"]
    /\ vc_end' = [vc_end EXCEPT ![d] = vc_clock + d]
    /\ UNCHANGED <<entry, mnvars, lpvars, semvars, wpvars, prvars, ccvars, dlvars, gqvars,
                   vc_pc, vc_clock, vc_total>>

\* a task that has run for its d seconds returns
VcFinish(d) ==
    /\ entry \in {"virtual_gather", "virtual_pool"}
    /\ vc_pc = "run"
    /\ vc_st[d] = "running"
    /\ vc_end[d] = vc_clock
    /\ vc_st' = [vc_st EXCEPT ![d] = "finished"]
    /\ vc_wk' = [w \in Workers |-> IF vc_wk[w] = d THEN -1 ELSE vc_wk[w]]
    /\ UNCHANGED <<entry, mnvars, lpvars, semvars, wpvars, prvars, ccvars, dlvars, gqvars,
                   vc_pc, vc_clock, vc_end, vc_total>>

\* the clock advances when nothing can start or return at the current time
VcTick ==
    /\ entry \in {"virtual_gather", "virtual_pool"}
    /\ vc_pc = "run"
    /\ \E d \in VTasks : vc_st[d] # "finished"
    /\ \A d \in VTasks : ~ENABLED VcStart(d) /\ ~ENABLED VcFinish(d)
    /\ vc_clock' = vc_clock + 1
    /\ UNCHANGED <<entry, mnvars, lpvars, semvars, wpvars, prvars, ccvars, dlvars, gqvars,
                   vc_pc, vc_st, vc_end, vc_wk, vc_total>>

\* end = time(); total = end - begin
VcDone ==
    /\ entry \in {"virtual_gather", "virtual_pool"}
    /\ vc_pc = "run"
    /\ \A d \in VTasks : vc_st[d] = "finished"
    /\ vc_total' = vc_clock
    /\ vc_pc' = "done"
    /\ UNCHANGED <<entry, mnvars, lpvars, semvars, wpvars, prvars, ccvars, dlvars, gqvars,
                   vc_clock, vc_st, vc_end, vc_wk>>

NextClock ==
    \/ VcTick
    \/ VcDone
    \/ \E d \in VTasks : VcStart(d)
    \/ \E d \in VTasks : VcFinish(d)


\* =========================== run_async_tasks_in_background, the event loop, main

InitAsync ==
    /\ as_pc = "start"
    /\ bg_pc = "new"

\* asyncio's default event loop: one object, created open
InitLoop ==
    /\ loop_st = "open"
    /\ loop_run = FALSE
    /\ loop_tasks = {}
    /\ loop_err = FALSE

\* a runner invoked on its own
InitAlone ==
    /\ script = <<>>
    /\ main_i = 1
    /\ main_st = "in_demo"

\* the calls of main, in order
MainScript ==
    <<"asynchronism", "concurrency", "parallelism", "semaphore", "workerpool">>

\* main, and a caller that invokes a runner of the loop once more after
\* run_concurrent_tasks
Scripts ==
    {MainScript, <<"concurrency", "concurrency">>, <<"concurrency", "asynchronism">>}

\* loop = asyncio.get_event_loop(); thread = Thread(target=run_async_tasks,
\* args=(loop,)); thread.start(); print; sleep(5)
AsStart ==
    /\ entry = "asynchronism"
    /\ as_pc = "start"
    /\ as_pc' = "s1"
    /\ bg_pc' = "started"
    /\ UNCHANGED <<entry, script, main_i, main_st, lpvars, semvars, wpvars,
                   prvars, ccvars, dlvars, gqvars, vcvars>>

\* print("[ASYNC] Doing another things..."); sleep(5), twice
AsSleep ==
    /\ entry = "asynchronism"
    /\ as_pc \in {"s1", "s2"}
    /\ as_pc' = IF as_pc = "s1" THEN "s2" ELSE "s3"
    /\ UNCHANGED <<entry, script, main_i, main_st, bg_pc, lpvars, semvars,
                   wpvars, prvars, ccvars, dlvars, gqvars, vcvars>>

\* thread.join(): returns when the thread has ended, by a return or by an
\* exception
AsJoin ==
    /\ entry = "asynchronism"
    /\ as_pc = "s3"
    /\ bg_pc \in {"ended", "crashed"}
    /\ as_pc' = "done"
    /\ UNCHANGED <<entry, script, main_i, main_st, bg_pc, lpvars, semvars,
                   wpvars, prvars, ccvars, dlvars, gqvars, vcvars>>

\* run_async_tasks in the thread: set_event_loop(loop); tasks = [download_pdfs(),
\* get_quotes()]; gather puts both on the loop and run_until_complete runs it.
\* On a closed loop gather cannot create its tasks: RuntimeError ends the thread
BgRun ==
    /\ bg_pc = "started"
    /\ ~loop_run
    /\ IF loop_st = "closed"
       THEN /\ bg_pc' = "crashed"
            /\ loop_err' = TRUE
            /\ UNCHANGED <<loop_run, loop_tasks>>
       ELSE /\ bg_pc' = "running"
            /\ loop_run' = TRUE
            /\ loop_tasks' = loop_tasks \cup {"download_pdfs", "get_quotes"}
            /\ UNCHANGED loop_err
    /\ UNCHANGED <<entry, script, main_i, main_st, as_pc, loop_st, semvars,
                   wpvars, prvars, ccvars, dlvars, gqvars, vcvars>>

\* both coroutines returned: run_until_complete returns and the thread ends
BgGatherReturn ==
    /\ bg_pc = "running"
    /\ dl_pc = "done"
    /\ gq_pc = "done"
    /\ bg_pc' = "ended"
    /\ loop_run' = FALSE
    /\ UNCHANGED <<entry, script, main_i, main_st, as_pc, loop_st, loop_tasks,
                   loop_err, semvars, wpvars, prvars, ccvars, dlvars, gqvars,
                   vcvars>>

\* get_quotes raised (download_pdfs catches what it raises): gather
\* (return_exceptions is False) sets the exception on its future,
\* run_until_complete stops the loop and raises, the thread ends by the
\* exception; gather does not cancel the other coroutine, which stays pending
\* on the loop
BgGatherRaise ==
    /\ bg_pc = "running"
    /\ gq_pc = "raised"
    /\ bg_pc' = "crashed"
    /\ loop_run' = FALSE
    /\ UNCHANGED <<entry, script, main_i, main_st, as_pc, loop_st, loop_tasks,
                   loop_err, semvars, wpvars, prvars, ccvars, dlvars, gqvars,
                   vcvars>>

NextAsync ==
    \/ AsStart
    \/ AsSleep
    \/ AsJoin
    \/ BgRun
    \/ BgGatherReturn
    \/ BgGatherRaise

\* the runner that main is in has returned
RunnerReturned ==
    \/ entry = "asynchronism" /\ as_pc = "done"
    \/ entry = "concurrency" /\ cc_pc = "returned"
    \/ entry = "parallelism" /\ pr_pc = "done"
    \/ entry = "semaphore" /\ sem_pc = "done"
    \/ entry = "workerpool" /\ wp_pc = "done"

\* the locals of a runner, its threads and its processes are gone once it has
\* returned; the module-level list valid_ips and the loop stay
ResetLocals ==
    /\ sem_pc' = "start"
    /\ sem_i' = 0
    /\ th_pc' = [t \in Threads |-> "new"]
    /\ whois' = [t \in Threads |-> "pending"]
    /\ permits' = SemaphoreValue
    /\ th_runs' = [t \in Threads |-> 0]
    /\ wp_pc' = "begin"
    /\ wp_K' = 0
    /\ taskq' = <<>>
    /\ wk' = [w \in Workers |-> 0]
    /\ tm_calls' = [i \in Items |-> 0]
    /\ tm_rets' = [i \in Items |-> 0]
    /\ outq' = <<>>
    /\ results' = [i \in Items |-> 0]
    /\ wp_values' = <<>>
    /\ pr_pc' = "start"
    /\ pr_i' = 0
    /\ p_pc' = [p \in Procs |-> "new"]
    /\ p_ctype' = [p \in Procs |-> "unset"]
    /\ p_ret' = [p \in Procs |-> "none"]
    /\ p_runs' = [p \in Procs |-> 0]
    /\ cc_pc' = "init"
    /\ co_pc' = [d \in Delays |-> "created"]
    /\ co_result' = [d \in Delays |-> -1]
    /\ cc_finished' = <<>>
    /\ cc_values' = <<>>
    /\ as_pc' = "start"
    /\ bg_pc' = "new"
    /\ gq_pc' = "sleep"
    /\ gq_i' = 0
    /\ gq_clock' = 0
    /\ gq_starts' = <<>>
    /\ IF "download_pdfs" \in loop_tasks
       THEN UNCHANGED dlvars
       ELSE /\ dl_pc' = "read"
            /\ dl_i' = 0
            /\ pdf_st' = [i \in Pdfs |-> "pending"]
            /\ dl_err' = FALSE

\* print("Running ... tasks..."); the next runner is called (after wait_for(5)
\* when it is not the first)
MainCall ==
    /\ main_st = "idle"
    /\ main_i <= Len(script)
    /\ entry' = script[main_i]
    /\ main_st' = "in_demo"
    /\ UNCHANGED <<script, main_i, as_pc, bg_pc, lpvars, semvars, wpvars,
                   prvars, ccvars, dlvars, gqvars, vcvars>>

\* the runner returns; print("... tasks completed!")
MainReturn ==
    /\ main_st = "in_demo"
    /\ main_i <= Len(script)
    /\ RunnerReturned
    /\ ResetLocals
    /\ entry' = "main"
    /\ main_i' = main_i + 1
    /\ main_st' = IF main_i = Len(script) THEN "finished" ELSE "idle"
    /\ UNCHANGED <<script, lpvars, valid_ips, vcvars>>

\* run_concurrent_tasks raised: nothing in main catches it, main ends
MainAbort ==
    /\ main_st = "in_demo"
    /\ main_i <= Len(script)
    /\ entry = "concurrency"
    /\ cc_pc = "raised"
    /\ main_st' = "aborted"
    /\ UNCHANGED <<entry, script, main_i, as_pc, bg_pc, lpvars, semvars,
                   wpvars, prvars, ccvars, dlvars, gqvars, vcvars>>

NextMain ==
    \/ MainCall
    \/ MainReturn
    \/ MainAbort
    \/ NextAsync
    \/ NextConcurrent
    \/ NextParallel
    \/ NextSemaphore
    \/ NextWorkerpool
    \/ NextDownload
    \/ NextQuotes

\* ============================================================ specification

Init ==
    /\ entry \in Entries
    /\ InitAlone
    /\ InitAsync
    /\ InitLoop
    /\ InitSemaphore
    /\ InitWorkerpool
    /\ InitParallel
    /\ InitConcurrent
    /\ InitDownload
    /\ InitQuotes
    /\ InitClock

Next ==
    \/ NextSemaphore
    \/ NextWorkerpool
    \/ NextParallel
    \/ NextConcurrent
    \/ NextDownload

\* run_semaphore_example invoked on its own
InitSemaphoreAlone ==
    /\ entry = "semaphore"
    /\ Init

\* run_semaphore_example under a fair scheduler: while the runner or a thread
\* can take a step, one of them eventually does
SpecSemaphoreFair ==
    /\ InitSemaphoreAlone
    /\ [][NextSemaphore]_vars
    /\ WF_vars(NextSemaphore)

Spec == Init /\ [][Next]_vars

InitAll ==
    /\ InitAlone
    /\ InitAsync
    /\ InitLoop
    /\ InitSemaphore
    /\ InitWorkerpool
    /\ InitParallel
    /\ InitConcurrent
    /\ InitDownload
    /\ InitQuotes
    /\ InitClock

\* main, or a caller of two runners of the loop, before the first call
InitMain ==
    /\ entry = "main"
    /\ script \in Scripts
    /\ main_i = 1
    /\ main_st = "idle"
    /\ InitAsync
    /\ InitLoop
    /\ InitSemaphore
    /\ InitWorkerpool
    /\ InitParallel
    /\ InitConcurrent
    /\ InitDownload
    /\ InitQuotes
    /\ InitClock

\* main, or a caller of two runners of the loop
SpecMain == InitMain /\ [][NextMain]_vars

\* get_quotes run alone, on a virtual clock
InitQuotesAlone ==
    /\ entry = "get_quotes"
    /\ InitAll

SpecQuotes == InitQuotesAlone /\ [][NextQuotes]_vars

\* the ten d-second tasks, run at once or through the pool
InitClockAlone ==
    /\ entry \in {"virtual_gather", "virtual_pool"}
    /\ InitAll

SpecClock == InitClockAlone /\ [][NextClock]_vars

\* ==================================================================== claims

\* C1: the number of train_model invocations that have started and not yet
\* returned never exceeds the number of worker processes of the pool.
InFlightWithinPool == Cardinality(InFlight) <= wp_K

\* C1 witness: a full pool of PoolSize workers, all busy, with items waiting.
PoolSaturated ==
    /\ wp_K = PoolSize
    /\ Cardinality(InFlight) = PoolSize
    /\ taskq # <<>>

\* C2: at most 4 threads are inside the guarded section of get_address_info.
AtMostFourInGuard == Cardinality(InGuard) <= 4

\* C2 witness: four threads are in the guarded section and a fifth one, whose
\* lookup succeeded, is kept waiting at the `with`.
FourInGuardOneWaiting ==
    /\ Cardinality(InGuard) = 4
    /\ \E t \in Threads : th_pc[t] = "acquire"

\* C3 (as documented in the docstring of get_address_info): at most 3 threads
\* are inside the guarded section.
AtMostThreeInGuard == Cardinality(InGuard) <= 3

\* C4: at the final print, valid_ips holds exactly one entry for every thread
\* whose lookup returned a result that is not None, and none for the others.
FinalValidIpsExact ==
    sem_pc = "done" =>
        \A t \in Threads :
            CopiesIn(t, valid_ips) = IF whois[t] = "ok" THEN 1 ELSE 0

\* C4 witness: the final print is reached after lookups of all three kinds,
\* at least two of them successful.
FinalPrintMixedLookups ==
    /\ sem_pc = "done"
    /\ \E t, u \in Threads : t # u /\ whois[t] = "ok" /\ whois[u] = "ok"
    /\ \E t \in Threads : whois[t] = "none"
    /\ \E t \in Threads : whois[t] = "raise"

\* C5: a task that raises is caught inside that task and stops nobody else:
\* a thread or process that raised is in its handler or has returned, while
\* the runner has not returned some step can still be taken, and when the
\* runner returns every thread has ended and every process has returned
\* either (True, size) or (False, 0).
FailureIsolated ==
    /\ entry = "semaphore" =>
        /\ sem_pc = "done" \/ ENABLED NextSemaphore
        /\ \A t \in Threads : whois[t] = "raise" => th_pc[t] \in {"except", "done"}
        /\ sem_pc = "done" =>
              \A t \in Threads : th_pc[t] = "done" /\ whois[t] # "pending"
    /\ entry = "parallelism" =>
        /\ pr_pc = "done" \/ ENABLED NextParallel
        /\ \A p \in Procs : p_ret[p] = "fail" => p_pc[p] = "done"
        /\ pr_pc = "done" =>
              \A p \in Procs : p_pc[p] = "done" /\ p_ret[p] \in {"ok", "fail"}

\* C5 witness: run_parallel_taks has returned although one task failed, and
\* another task succeeded.
ParallelReturnedWithFailure ==
    /\ pr_pc = "done"
    /\ \E p, q \in Procs : p_ret[p] = "fail" /\ p_ret[q] = "ok"

\* C6: in download_pdfs, when download_file raises for the PDF at index i,
\* every PDF at a greater index is still attempted.
SiblingsStillAttempted ==
    dl_pc = "done" =>
        \A i, j \in Pdfs :
            (i < j /\ pdf_st[i] = "raised") => pdf_st[j] # "pending"

\* C7: when a task(delay) coroutine raises, run_concurrent_tasks still returns
\* the total without raising, after every other coroutine has run to its end.
TaskErrorNeverEscapes ==
    (cc_pc \in {"returned", "raised"} /\ \E d \in Delays : co_pc[d] = "raised") =>
        /\ cc_pc = "returned"
        /\ \A d \in Delays : co_pc[d] \in {"done", "raised"}

\* C8: no task is started more than once, and when the runner returns (the
\* final print of run_semaphore_example, the total of run_parallel_taks, the
\* end of the pool block of run_workerpool_tasks) every task has been started
\* exactly once and has ended.
RunnerReturnsAfterAll ==
    /\ \A t \in Threads : th_runs[t] <= 1
    /\ \A p \in Procs : p_runs[p] <= 1
    /\ \A i \in Items : tm_calls[i] <= 1
    /\ sem_pc = "done" => \A t \in Threads : th_runs[t] = 1 /\ th_pc[t] = "done"
    /\ pr_pc = "done" => \A p \in Procs : p_runs[p] = 1 /\ p_pc[p] = "done"
    /\ wp_pc \in {"exit", "done"} =>
          \A i \in Items : tm_calls[i] = 1 /\ tm_rets[i] = 1

\* C8 witness: run_workerpool_tasks has left the block of a pool of PoolSize
\* workers.
PoolBlockLeft ==
    /\ wp_pc = "done"
    /\ wp_K = PoolSize

\* C9: the list gather returns and the list pool.map returns have one entry
\* per submitted item, entry i being the result of the i-th item.
ResultsInSubmissionOrder ==
    /\ cc_pc = "returned" =>
          /\ Len(cc_values) = NDelays
          /\ \A i \in 1 .. NDelays : cc_values[i] = i - 1
    /\ wp_pc \in {"exit", "done"} =>
          /\ Len(wp_values) = NItems
          /\ \A i \in Items : wp_values[i] = MaxIter(i)

\* C9 witness: gather has returned and the children did not finish in the
\* order in which they were submitted.
GatherReturnedOutOfOrder ==
    /\ cc_pc = "returned"
    /\ cc_finished # Children

\* a thread that has entered the guarded section
Entered(t) ==
    \/ th_pc[t] \in {"guarded", "sleep", "released"}
    \/ th_pc[t] = "done" /\ whois[t] = "ok"

SemInFlight == {t \in Threads : th_pc[t] \notin {"new", "done"}}

\* C11: the number of get_address_info tasks that have started and not yet
\* returned never exceeds the limit of 4.
SemInFlightAtMostFour == Cardinality(SemInFlight) <= 4

\* C12: in a pool of one worker, the train_model of item i+1 never starts
\* before the train_model of item i has returned.
SingleWorkerSerializes ==
    wp_K = 1 =>
        \A i \in Items :
            (i + 1 \in Items /\ tm_calls[i + 1] > 0) => tm_rets[i] > 0

\* C12 witness: a pool of one worker is running the second item.
SingleWorkerOnSecondItem ==
    /\ wp_K = 1
    /\ tm_calls[2] = 1
    /\ tm_rets[2] = 0

\* C15: run_parallel_taks starts every process before it joins any: while it
\* is in its start loop the next start never waits, and once it joins every
\* process has been started.
AllStartedBeforeAnyJoin ==
    entry = "parallelism" =>
        /\ pr_pc = "start" => ENABLED PrStart
        /\ pr_pc \in {"join", "done"} => \A p \in Procs : p_runs[p] = 1

\* C15 witness: all the task processes are running at the same time.
AllProcsRunning ==
    \A p \in Procs : p_pc[p] \in {"get", "check", "image", "except"}

\* threads that printed "Acquiring" and have not yet printed "Releasing"
Announced == {t \in Threads : th_pc[t] \in {"guarded", "sleep", "released"}}

\* C17: a thread prints "Releasing access to shared resource" only after it
\* has left the with block: the step that prints it starts from outside the
\* block and does not change the semaphore.
ReleasingPrintedAfterRelease ==
    [][\A t \in Threads :
          (whois[t] = "ok" /\ th_pc[t] # "done" /\ th_pc'[t] = "done") =>
              (th_pc[t] = "released" /\ t \notin InGuard /\ permits' = permits)]_vars

\* C17 witness: five threads have printed "Acquiring" and not yet "Releasing".
FiveAnnounced == Cardinality(Announced) >= 5

SemaphoreExampleTerminates == <>(sem_pc = "done")

\* C19 witness: the final print is reached after every thread needed a slot,
\* so that at least one of them had to wait for it.
FinalPrintAllNeededSlot ==
    /\ sem_pc = "done"
    /\ \A t \in Threads : whois[t] = "ok"

VirtualClockTotals ==
    /\ (entry = "virtual_gather" /\ vc_pc = "done") => vc_total = 9
    /\ (entry = "virtual_pool" /\ vc_pc = "done") => vc_total > 9
    /\ entry = "virtual_pool" => Cardinality(VRunning) <= 3

\* C13 witness: the pool run has ended, with its total.
VirtualPoolEnded ==
    /\ entry = "virtual_pool"
    /\ vc_pc = "done"
    /\ vc_total > 9

\* C14: main calls the five runners in the order async, concurrent, parallel,
\* semaphore, workerpool, and once a task of a later runner has started, the
\* background thread of run_async_tasks_in_background has ended and the
\* coroutines it put on the loop, download_pdfs and get_quotes, have ended.
DemosDoNotOverlap ==
    script = MainScript =>
        /\ main_i <= Len(script) => entry \in {"main", script[main_i]}
        /\ (entry = "concurrency" /\ \E d \in Delays : co_pc[d] # "created") =>
              /\ bg_pc \notin {"started", "running"}
              /\ loop_tasks = {}
        /\ entry \in {"parallelism", "semaphore", "workerpool"} =>
              /\ bg_pc \notin {"started", "running"}
              /\ loop_tasks = {}
              /\ ~loop_run

\* C20: the loop runs only while it is open and for one runner at a time;
\* run_concurrent_tasks has closed it when it returns; in main no call finds
\* it closed; a runner of the loop that is invoked once it is closed never
\* gets to run it and ends with the RuntimeError.
LoopDiscipline ==
    /\ loop_run => loop_st = "open"
    /\ ~(bg_pc = "running" /\ cc_pc = "running")
    /\ cc_pc = "returned" => loop_st = "closed"
    /\ script = MainScript => ~loop_err
    /\ (script # MainScript /\ loop_st = "closed" /\ main_i = 2) =>
          /\ cc_pc \in {"init", "raised"}
          /\ bg_pc \in {"new", "started", "crashed"}
          /\ loop_tasks = {}
          /\ (entry = "asynchronism" /\ as_pc = "done") =>
                bg_pc = "crashed" /\ loop_err
          /\ cc_pc = "raised" => loop_err

\* C20 witness: run_async_tasks_in_background, invoked after
\* run_concurrent_tasks returned, has returned and its thread ended with the
\* RuntimeError of the closed loop.
AsyncAfterCloseFailed ==
    /\ script = <<"concurrency", "asynchronism">>
    /\ main_i = 2
    /\ as_pc = "done"
    /\ bg_pc = "crashed"
    /\ loop_err

====
